---- MODULE Spec2Model ----
(***************************************************************************)
(* Model of flask_idempotent2.Idempotent: the redis response cache, its    *)
(* reverse index, the sqlalchemy change tracker and the wrapped view       *)
(* function, with one worker per in-flight request.                        *)
(*                                                                         *)
(* Redis is modelled by what its client observes: a key is either absent   *)
(* (Nil) or holds a value and its remaining time to live; SETEX stores the *)
(* timeout, every tick of the clock takes one unit off every key and       *)
(* removes the keys that reach zero, and a MULTI/EXEC pipeline applies all *)
(* its commands in one step.                                               *)
(*                                                                         *)
(* flask.g is local to a request, so the hooks of the change tracker touch *)
(* nothing another worker can see.  The specifications of the cache        *)
(* protocol (Spec, SpecNoLock, SpecSeq) therefore run the view function,   *)
(* its hooks and set_response_cache as one step (View); SpecTracker runs   *)
(* one request at a time with every hook as a step of its own.             *)
(***************************************************************************)
EXTENDS Integers, Sequences, FiniteSets, TLC

\* ------------------------------------------------------------------ bounds
LongTimeout == 2
ShortTimeout == 1
MaxPk == 2
MaxChanges == 2
MaxRules == 2
MaxVaried == 2

\* ------------------------------------------------------------- universes
Workers == {"w1", "w2"}
Fingerprints == {<<"fpA">>, <<"fpB">>}
Responses == {"r1", "r2"}
\* None, for a redis key, a loaded value or a history record.
Nil == [none |-> TRUE]
\* A response that was not produced.
NoResponse == "none"
\* The keyfunc was not called yet.
NoId == <<>>
\* A local name that was never assigned.
Unbound == <<>>

\* Instances of mapped classes, told apart by their primary key.
Instances == [name : {"User"}, pk : 1..MaxPk]

\* '{0}:{1}'.format(name, pk)
InstanceStr(instance) == <<instance.name, instance.pk>>

InstanceStrs == {InstanceStr(i) : i \in Instances}

redis_key_prefix == "idempotent"
app_name == "app"

\* '{0}:{1}:{2}'.format(self.redis_key_prefix, self.app.name, origin_key)
format_redis_key(origin_key) == <<redis_key_prefix, app_name, origin_key>>

Keys == {format_redis_key(k) : k \in Fingerprints \cup InstanceStrs}

\* The timeout the view function of a fingerprint was wrapped with.
TimeoutOf(f) == IF f = <<"fpA">> THEN LongTimeout ELSE ShortTimeout

Range(s) == {s[i] : i \in 1..Len(s)}

StrsOf(s) == {InstanceStr(i) : i \in Range(s)}

\* At most one instance in a list of the session.
Short == {<<>>} \cup {<<i>> : i \in Instances}

\* session.new, session.dirty and session.deleted as the hooks iterate them.
Sessions ==
    {s \in [new : Short, dirty : Short, deleted : Short] :
        Len(s.new) + Len(s.dirty) + Len(s.deleted) <= MaxChanges}

SessionSeq(session) == session.new \o session.dirty \o session.deleted

VARIABLES
    store,                  \* redis: key -> Nil or [val, ttl]
    enable_idempotent_lock, \* Idempotent.enable_idempotent_lock
    pc,                     \* position of each worker in wrapped_view_function
    idempotent_id,          \* keyfunc() of the worker's request
    value,                  \* loaded value of redis.get in get_cached_response
    g_,                     \* flask.g of the request: the two change lists
    response,               \* the response the view function returned
    persistent,             \* the instances inspect() finds persistent
    last,                   \* how the latest invocation ended
    stored,                 \* history: the last put per fingerprint
    discarded,              \* history: instance strings dropped by a rollback
    recorded,               \* history: instance strings the hooks were called with
    seen,                   \* history: instance strings recorded since the latest
                            \* commit or rollback
    promoted,               \* history: instances a commit of the request promoted
    endpoint,               \* request.endpoint of the worker, or NoCtx
    view_functions,         \* app.view_functions: endpoint -> view function
    url_map,                \* app.url_map: the rules, as iter_rules yields them
    kf                      \* a keyfunc, two requests and their fingerprints

vars == <<store, enable_idempotent_lock, pc, idempotent_id, value, g_,
          response, persistent, last, stored, discarded, recorded, seen,
          promoted, endpoint, view_functions, url_map, kf>>

\* What no request changes: the configuration and the registry of the app.
fixed == <<enable_idempotent_lock, view_functions, url_map, kf>>

EmptyG == [changes |-> <<>>, committed |-> <<>>]

\* ------------------------------------------------------------------ redis
\* pipeline.setex(key, timeout, value)
Setex(key, ttl, val) == [key |-> key, ttl |-> ttl, val |-> val]

\* A pipeline that applies only one of its queued commands.
PipelineExecuteOne(st, cmds) ==
    LET c == CHOOSE c \in cmds : TRUE
    IN [st EXCEPT ![c.key] = [val |-> c.val, ttl |-> c.ttl]]

\* pipeline.execute() of a transactional pipeline: every queued command is
\* applied, in one step.
PipelineExecute(st, cmds) ==
    [k \in Keys |->
        IF \E c \in cmds : c.key = k
        THEN LET c == CHOOSE c \in cmds : c.key = k
             IN [val |-> c.val, ttl |-> c.ttl]
        ELSE st[k]]

\* A purge that removes a key and with it every reverse-index entry.
RedisFlushAffected(st, key) ==
    [k \in Keys |-> IF k = key \/ k[3] \in InstanceStrs THEN Nil ELSE st[k]]

\* redis.delete(key)
RedisDelete(st, key) == [st EXCEPT ![key] = Nil]

\* One unit of time: a key whose time to live has elapsed is gone.
Expire(st) ==
    [k \in Keys |->
        IF st[k] = Nil THEN Nil
        ELSE IF st[k].ttl <= 1 THEN Nil
        ELSE [st[k] EXCEPT !.ttl = @ - 1]]

\* ---------------------------------------------------------------- keyfunc
\* Optional values: <<>> is None, <<x>> is x.
\* repr() of an optional string or number, as str() of a list shows it.
Repr(v) == IF v = <<>> THEN <<"None">> ELSE <<"'", v[1], "'">>

\* request.headers.get(name, default): the first header of that name.
HeadersGet(hs, name, default) ==
    IF \E i \in 1..Len(hs) : hs[i][1] = name
    THEN <<hs[CHOOSE i \in 1..Len(hs) :
                 hs[i][1] = name /\ \A j \in 1..(i - 1) : hs[j][1] # name][2]>>
    ELSE default

\* The names a key of a dimension or of an entry can have, in the order
\* sorted() gives them.
SortOrder ==
    <<"X-A", "X-Forwarded-For", "content_length", "content_type", "data",
      "headers", "k1", "k2", "method", "path", "query_string", "remote_addr",
      "session">>

\* sorted(items) for items <<key, value>> with distinct keys.
Sorted(items) ==
    LET present == SelectSeq(SortOrder,
                             LAMBDA k : \E i \in 1..Len(items) : items[i][1] = k)
    IN [j \in 1..Len(present) |->
           items[CHOOSE i \in 1..Len(items) : items[i][1] = present[j]]]

\* d = {}; for name in headers: d[name] = request.headers.get(name, None)
NamedHeaders(names, hs) ==
    [j \in 1..Len(names) |-> <<names[j], Repr(HeadersGet(hs, names[j], <<>>))>>]

\* A keyfunc that takes the method whatever its switch says.
dimensions_with_method(cfg, req) ==
    (IF cfg.path THEN <<<<"path", <<"'", req.path, "'">>>>>> ELSE <<>>)
    \o <<<<"method", <<"'", req.method, "'">>>>>>
    \o (IF cfg.query_string THEN <<<<"query_string", <<"b'", req.query_string, "'">>>>>> ELSE <<>>)
    \o (IF cfg.data THEN <<<<"data", <<"b'", req.data, "'">>>>>> ELSE <<>>)
    \o (IF cfg.headers # <<>>
        THEN <<<<"headers", <<"'", Sorted(NamedHeaders(cfg.headers, req.headers)), "'">>>>>>
        ELSE <<>>)
    \o (IF cfg.session THEN <<<<"session", <<"'", Sorted(req.session), "'">>>>>> ELSE <<>>)
    \o (IF cfg.content_type THEN <<<<"content_type", Repr(req.content_type)>>>> ELSE <<>>)
    \o (IF cfg.content_length THEN <<<<"content_length", Repr(req.content_length)>>>> ELSE <<>>)
    \o (IF cfg.remote_addr
        THEN <<<<"remote_addr",
                 Repr(HeadersGet(req.headers, "X-Forwarded-For", <<req.remote_addr>>))>>>>
        ELSE <<>>)

\* A keyfunc that leaves the path out.
dimensions_without_path(cfg, req) ==
    (IF cfg.method THEN <<<<"method", <<"'", req.method, "'">>>>>> ELSE <<>>)
    \o (IF cfg.query_string THEN <<<<"query_string", <<"b'", req.query_string, "'">>>>>> ELSE <<>>)
    \o (IF cfg.data THEN <<<<"data", <<"b'", req.data, "'">>>>>> ELSE <<>>)
    \o (IF cfg.headers # <<>>
        THEN <<<<"headers", <<"'", Sorted(NamedHeaders(cfg.headers, req.headers)), "'">>>>>>
        ELSE <<>>)
    \o (IF cfg.session THEN <<<<"session", <<"'", Sorted(req.session), "'">>>>>> ELSE <<>>)
    \o (IF cfg.content_type THEN <<<<"content_type", Repr(req.content_type)>>>> ELSE <<>>)
    \o (IF cfg.content_length THEN <<<<"content_length", Repr(req.content_length)>>>> ELSE <<>>)
    \o (IF cfg.remote_addr
        THEN <<<<"remote_addr",
                 Repr(HeadersGet(req.headers, "X-Forwarded-For", <<req.remote_addr>>))>>>>
        ELSE <<>>)

\* The dict `dimensions` of keyfunc, as the list of its items: each enabled
\* dimension with the value read from the request.  The query string and
\* the body are the bytes as sent; the named headers and the session are
\* str(sorted(items)).
dimensions(cfg, req) ==
    (IF cfg.path THEN <<<<"path", <<"'", req.path, "'">>>>>> ELSE <<>>)
    \o (IF cfg.method THEN <<<<"method", <<"'", req.method, "'">>>>>> ELSE <<>>)
    \o (IF cfg.query_string THEN <<<<"query_string", <<"b'", req.query_string, "'">>>>>> ELSE <<>>)
    \o (IF cfg.data THEN <<<<"data", <<"b'", req.data, "'">>>>>> ELSE <<>>)
    \o (IF cfg.headers # <<>>
        THEN <<<<"headers", <<"'", Sorted(NamedHeaders(cfg.headers, req.headers)), "'">>>>>>
        ELSE <<>>)
    \o (IF cfg.session THEN <<<<"session", <<"'", Sorted(req.session), "'">>>>>> ELSE <<>>)
    \o (IF cfg.content_type THEN <<<<"content_type", Repr(req.content_type)>>>> ELSE <<>>)
    \o (IF cfg.content_length THEN <<<<"content_length", Repr(req.content_length)>>>> ELSE <<>>)
    \o (IF cfg.remote_addr
        THEN <<<<"remote_addr",
                 Repr(HeadersGet(req.headers, "X-Forwarded-For", <<req.remote_addr>>))>>>>
        ELSE <<>>)

\* hashlib.sha1 of the key, taken as free of collisions.
sha1_hexdigest(origin_key) == <<"sha1", origin_key>>

\* keyfunc(): str(sorted(dimensions.items())), hashed if use_checksum.
keyfunc(cfg, req) ==
    LET origin_key == Sorted(dimensions(cfg, req))
    IN IF cfg.use_checksum THEN sha1_hexdigest(origin_key) ELSE <<"raw", origin_key>>

\* --------------------------------------------------------------- registry
Endpoints == {"a", "b", "plain"}
\* request.endpoint when no rule matched the request.
NoEndpoint == "(none)"
\* No application context: the code runs outside flask.
NoCtx == "(outside)"
\* An application context without a request: `request` cannot be used.
AppOnly == "(app)"

Methods == {"GET", "PUT", "POST", "OPTIONS"}

\* A view function: the number of wrapped_view_function closures around the
\* function the application wrote, and its two marks.
ViewFunction(layers, wrapped, forget) ==
    [layers |-> layers, _idempotent_wrapped |-> wrapped, _idempotent_forget |-> forget]

\* self.app.view_functions.get(endpoint, None)
ViewFunctionsGet(vfs, ep) == IF ep \in DOMAIN vfs THEN vfs[ep] ELSE Nil

\* The endpoint whose requests have the fingerprint f (the path is a
\* dimension of the key).
EndpointOf(f) == IF f = <<"fpA">> THEN "a" ELSE "b"

\* The registry of the application the requests run in: two wrapped view
\* functions and one that is not wrapped.
Registered ==
    [ep \in Endpoints |->
        IF ep = "plain" THEN ViewFunction(0, FALSE, FALSE)
        ELSE ViewFunction(1, TRUE, FALSE)]

Rule(ep, methods) == [endpoint |-> ep, methods |-> methods]

RegisteredRules ==
    <<Rule("a", {"PUT", "OPTIONS"}), Rule("b", {"PUT", "OPTIONS"}),
      Rule("plain", {"POST", "OPTIONS"})>>

\* Optional arguments: <<>> for None, <<x>> for x.
DefaultMethods == {"GET", "PUT", "DELETE"}
DefaultReserved == {"static"}

\* A wrap that does not look for the mark of an earlier wrap.
wrap_view_func_again(func) ==
    IF func._idempotent_forget THEN func
    ELSE ViewFunction(func.layers + 1, TRUE, func._idempotent_forget)

\* wrap_view_func: a forgotten or an already wrapped function is returned
\* as it is; else a new wrapped_view_function around it, marked as wrapped
\* (functools.wraps copies the attributes of func).
wrap_view_func(func) ==
    IF func._idempotent_forget THEN func
    ELSE IF func._idempotent_wrapped THEN func
    ELSE ViewFunction(func.layers + 1, TRUE, func._idempotent_forget)

\* forget: marks the function itself and returns it.
forget(func) == [func EXCEPT !._idempotent_forget = TRUE]

\* A sweep that reserves nothing.
ReservedNever(ep, reserved_endpoints) == FALSE

\* `url_rule.endpoint in reserved_endpoints`
Reserved(ep, reserved_endpoints) == ep \in reserved_endpoints

\* The inner loop of auto_register over the methods of one rule.
RECURSIVE MethodLoop(_, _, _, _)
MethodLoop(vfs, ep, methods, http_methods) ==
    IF methods = {} THEN vfs
    ELSE LET http_method == CHOOSE x \in methods : TRUE
             rest == methods \ {http_method}
         IN IF http_method \in http_methods
            THEN LET view_function == vfs[ep]
                 IN IF view_function._idempotent_forget
                    THEN MethodLoop(vfs, ep, rest, http_methods)
                    ELSE MethodLoop([vfs EXCEPT ![ep] = wrap_view_func(view_function)],
                                    ep, rest, http_methods)
            ELSE MethodLoop(vfs, ep, rest, http_methods)

\* The outer loop of auto_register over the rules of the url map.
RECURSIVE RuleLoop(_, _, _, _, _)
RuleLoop(vfs, rules, i, http_methods, reserved_endpoints) ==
    IF i > Len(rules) THEN vfs
    ELSE IF Reserved(rules[i].endpoint, reserved_endpoints)
         THEN RuleLoop(vfs, rules, i + 1, http_methods, reserved_endpoints)
         ELSE RuleLoop(MethodLoop(vfs, rules[i].endpoint, rules[i].methods, http_methods),
                       rules, i + 1, http_methods, reserved_endpoints)

\* auto_register(http_methods=None, reserved_endpoints=None)
auto_register(vfs, rules, http_methods, reserved_endpoints) ==
    RuleLoop(vfs, rules, 1,
             IF http_methods = <<>> THEN DefaultMethods ELSE http_methods[1],
             IF reserved_endpoints = <<>> THEN DefaultReserved ELSE reserved_endpoints[1])

\* -------------------------------------------------------- change tracker
\* `request.endpoint` raises outside a request context.
HookRaises(w) == endpoint[w] = AppOnly

\* A guard that lets the hooks run for every code path.
should_call_always(w) == TRUE

\* should_call_sqlalchemy_hook: False outside flask, else whether the view
\* function of the request's endpoint exists and is marked as wrapped.
should_call_sqlalchemy_hook(w) ==
    IF endpoint[w] = NoCtx THEN FALSE
    ELSE LET view_function == ViewFunctionsGet(view_functions, endpoint[w])
         IN IF view_function = Nil THEN FALSE
            ELSE view_function._idempotent_wrapped

\* A hook that keeps only what the latest flush holds.
record_latest_only(g, session) ==
    [g EXCEPT !.changes = session.new \o session.dirty \o session.deleted]

\* record_changed_instances: append new, dirty, then deleted instances.
record_changed_instances(g, session) ==
    [g EXCEPT !.changes = g.changes \o session.new \o session.dirty \o session.deleted]

\* A rollback hook that forgets to empty the committed list.
clear_pending_only(g) ==
    [g EXCEPT !.changes = <<>>]

\* clear_changed_instances: both lists become empty.
clear_changed_instances(g) ==
    [changes |-> <<>>, committed |-> <<>>]

\* A commit hook that promotes the pending list and leaves it as it is.
record_committed_keep_pending(g) ==
    IF g.changes # <<>>
    THEN [g EXCEPT !.committed = g.changes]
    ELSE g

\* record_committed_changes: a non-empty pending list replaces the
\* committed list and is then emptied.
record_committed_changes(g) ==
    IF g.changes # <<>>
    THEN [changes |-> <<>>, committed |-> g.changes]
    ELSE g

\* The hooks sqlalchemy may fire while the view function runs.
Events ==
    [hook : {"before_flush"}, session : Sessions \ {[new |-> <<>>, dirty |-> <<>>, deleted |-> <<>>]}]
      \cup [hook : {"before_commit"}, session : Sessions]
      \cup [hook : {"after_commit", "after_rollback"},
            session : {[new |-> <<>>, dirty |-> <<>>, deleted |-> <<>>]}]

\* register_sqlalchemy_events: the listener of each event.
Fire(g, ev) ==
    CASE ev.hook \in {"before_flush", "before_commit"} ->
            record_changed_instances(g, ev.session)
      [] ev.hook = "after_commit" -> record_committed_changes(g)
      [] ev.hook = "after_rollback" -> clear_changed_instances(g)

\* The states of flask.g a view function can leave behind.
RECURSIVE Closure(_)
Closure(gs) ==
    LET more == gs \cup {Fire(g, ev) : g \in gs, ev \in Events}
        kept == {g \in more : Len(g.changes) <= MaxChanges}
    IN IF kept = gs THEN gs ELSE Closure(kept)

TrackerStates == Closure({EmptyG})

\* The committed lists set_response_cache can find in flask.g.
CommittedLists == {g.committed : g \in TrackerStates}

\* ---------------------------------------------------------- serialization
\* The loop of dumps_response_and_changed_instances over the committed
\* instances: instance_str is assigned only for a persistent instance, and
\* added to the set for every instance.  Reading it while unassigned raises.
RECURSIVE InstanceLoop(_, _, _, _, _)
InstanceLoop(committed, pers, i, instance_str, instances) ==
    IF i > Len(committed) THEN [raised |-> FALSE, instances |-> instances]
    ELSE LET s == IF committed[i] \in pers
                  THEN InstanceStr(committed[i])
                  ELSE instance_str
         IN IF s = Unbound THEN [raised |-> TRUE, instances |-> {}]
            ELSE InstanceLoop(committed, pers, i + 1, s, instances \cup {s})

\* pickle.dumps([response, instances]), instances
dumps_response_and_changed_instances(resp, committed, pers) ==
    LET loop == InstanceLoop(committed, pers, 1, Unbound, {})
    IN [raised |-> loop.raised,
        pickled |-> <<"pickle", resp, loop.instances>>,
        instances |-> loop.instances]

\* pickle.loads(value), unpacked as (response, instances)
loads_cached_value(val) == [response |-> val[2], instances |-> val[3]]

\* A lookup that validates whatever the instances are.
NeedsValidationAlways(instances) == TRUE

\* `if instances:` in get_cached_response
NeedsValidation(instances) == instances # {}

\* A validation loop with the comparison the wrong way round.
BadInstancesEqual(st, instances, id) ==
    {e \in instances : st[format_redis_key(e)] = Nil
                       \/ st[format_redis_key(e)].val = id}

\* The reverse-index entries that stop the validation loop.
BadInstances(st, instances, id) ==
    {e \in instances : st[format_redis_key(e)] = Nil
                       \/ st[format_redis_key(e)].val # id}

\* A put that gives its keys a longer life than the timeout.
PutCommandsLonger(id, dumped, timeout) ==
    {Setex(format_redis_key(id), timeout + 1, dumped.pickled)}
      \cup {Setex(format_redis_key(e), timeout + 1, id) : e \in dumped.instances}

\* A put whose reverse-index entries outlive the cache entry.
PutCommandsIndexLonger(id, dumped, timeout) ==
    {Setex(format_redis_key(id), timeout, dumped.pickled)}
      \cup {Setex(format_redis_key(e), timeout + 1, id) : e \in dumped.instances}

\* The commands set_response_cache queues on its pipeline.
PutCommands(id, dumped, timeout) ==
    {Setex(format_redis_key(id), timeout, dumped.pickled)}
      \cup {Setex(format_redis_key(e), timeout, id) : e \in dumped.instances}

\* A flask.g that outlives its request.
LeftoverG(g) == g

\* flask.g belongs to the application context of one request: the next
\* request of the worker finds a new, empty one.
FreshG(g) == EmptyG

\* How an invocation ended, as its caller sees it.
Ended(how, resp) == [outcome |-> how, response |-> resp]

\* ------------------------------------------------------------------- init
InitCommon ==
    /\ store = [k \in Keys |-> Nil]
    /\ pc = [w \in Workers |-> "idle"]
    /\ idempotent_id = [w \in Workers |-> NoId]
    /\ value = [w \in Workers |-> Nil]
    /\ g_ = [w \in Workers |-> EmptyG]
    /\ response = [w \in Workers |-> NoResponse]
    /\ persistent = [w \in Workers |-> {}]
    /\ last = Nil
    /\ stored = [f \in Fingerprints |-> Nil]
    /\ discarded = [w \in Workers |-> {}]
    /\ recorded = [w \in Workers |-> {}]
    /\ seen = [w \in Workers |-> {}]
    /\ promoted = [w \in Workers |-> {}]
    /\ endpoint = [w \in Workers |-> NoCtx]

\* The application is set up: its view functions are registered.
InitApp ==
    /\ view_functions = Registered
    /\ url_map = RegisteredRules
    /\ kf = Nil

Init == InitCommon /\ InitApp /\ enable_idempotent_lock = TRUE

InitNoLock == InitCommon /\ InitApp /\ enable_idempotent_lock = FALSE

\* ---------------------------------------------------------------- actions
\* History of the last put of each fingerprint, one unit of time later.
Aged(h) ==
    [f \in Fingerprints |->
        IF h[f] = Nil THEN Nil
        ELSE IF h[f].left <= 1
             THEN [response |-> NoResponse, instances |-> {}, left |-> 0]
             ELSE [h[f] EXCEPT !.left = @ - 1]]

\* Time passes; redis drops the keys whose time to live has elapsed.
Tick ==
    /\ store' = Expire(store)
    /\ stored' = Aged(stored)
    /\ UNCHANGED <<fixed, pc, idempotent_id, endpoint, value, g_,
                   response, persistent, last, discarded, recorded, seen, promoted>>

\* A request reaches wrapped_view_function: idempotent_id = keyfunc().
Start(w, f) ==
    /\ pc[w] = "idle"
    /\ pc' = [pc EXCEPT ![w] = "get"]
    /\ idempotent_id' = [idempotent_id EXCEPT ![w] = f]
    /\ endpoint' = [endpoint EXCEPT ![w] = EndpointOf(f)]
    /\ UNCHANGED <<store, fixed, value, g_, response,
                   persistent, last, stored, discarded, recorded, seen, promoted>>

\* The same, when no other request is in flight.
StartSeq(w, f) ==
    /\ \A v \in Workers : pc[v] = "idle"
    /\ Start(w, f)

\* The end of wrapped_view_function: the request is over.
Finish(w, how, resp) ==
    /\ pc' = [pc EXCEPT ![w] = "idle"]
    /\ idempotent_id' = [idempotent_id EXCEPT ![w] = NoId]
    /\ value' = [value EXCEPT ![w] = Nil]
    /\ g_' = [g_ EXCEPT ![w] = FreshG(g_[w])]
    /\ response' = [response EXCEPT ![w] = NoResponse]
    /\ persistent' = [persistent EXCEPT ![w] = {}]
    /\ discarded' = [discarded EXCEPT ![w] = {}]
    /\ recorded' = [recorded EXCEPT ![w] = {}]
    /\ seen' = [seen EXCEPT ![w] = {}]
    /\ promoted' = [promoted EXCEPT ![w] = {}]
    /\ endpoint' = [endpoint EXCEPT ![w] = NoCtx]
    /\ last' = Ended(how, resp)

\* A lookup that renews the time to live of the entry it returns.
GetRefreshing(w) ==
    /\ pc[w] = "get"
    /\ LET key == format_redis_key(idempotent_id[w])
           entry == store[key]
       IN IF entry = Nil
          THEN /\ pc' = [pc EXCEPT ![w] = "exec"]
               /\ UNCHANGED <<store, idempotent_id, endpoint, value, g_, response,
                              persistent, last, discarded, recorded, seen, promoted>>
          ELSE LET loaded == loads_cached_value(entry.val)
               IN IF NeedsValidation(loaded.instances)
                  THEN /\ pc' = [pc EXCEPT ![w] = "mget"]
                       /\ value' = [value EXCEPT ![w] = loaded]
                       /\ UNCHANGED <<store, idempotent_id, endpoint, g_, response,
                                      persistent, last, discarded, recorded, seen,
                                      promoted>>
                  ELSE /\ Finish(w, "hit", loaded.response)
                       /\ store' = [store EXCEPT ![key].ttl = TimeoutOf(idempotent_id[w])]
    /\ UNCHANGED <<fixed, stored>>

\* get_cached_response up to the mget: redis.get, loads, `if instances`.
Get(w) ==
    /\ pc[w] = "get"
    /\ LET entry == store[format_redis_key(idempotent_id[w])]
       IN IF entry = Nil
          THEN \* miss: the view function is called
               /\ pc' = [pc EXCEPT ![w] = "exec"]
               /\ UNCHANGED <<idempotent_id, endpoint, value, g_, response, persistent,
                              last, discarded, recorded, seen, promoted>>
          ELSE LET loaded == loads_cached_value(entry.val)
               IN IF NeedsValidation(loaded.instances)
                  THEN /\ pc' = [pc EXCEPT ![w] = "mget"]
                       /\ value' = [value EXCEPT ![w] = loaded]
                       /\ UNCHANGED <<idempotent_id, endpoint, g_, response, persistent,
                                      last, discarded, recorded, seen, promoted>>
                  ELSE \* hit
                       Finish(w, "hit", loaded.response)
    /\ UNCHANGED <<store, fixed, stored>>

\* redis.mget and the loop over its values.  The instances are a set, so
\* any of the entries that stop the loop may be the first one met: None has
\* no decode (AttributeError), another fingerprint leads to redis.delete.
MGet(w) ==
    /\ pc[w] = "mget"
    /\ LET bad == BadInstances(store, value[w].instances, idempotent_id[w])
       IN IF bad = {}
          THEN \* hit
               Finish(w, "hit", value[w].response)
          ELSE \E e \in bad :
                 IF store[format_redis_key(e)] = Nil
                 THEN Finish(w, "AttributeError", NoResponse)
                 ELSE /\ pc' = [pc EXCEPT ![w] = "delete"]
                      /\ value' = [value EXCEPT ![w] = Nil]
                      /\ UNCHANGED <<idempotent_id, endpoint, g_, response, persistent,
                                     last, discarded, recorded, seen, promoted>>
    /\ UNCHANGED <<store, fixed, stored>>

\* redis.delete(key); return (miss), and the view function is called.
Delete(w) ==
    /\ pc[w] = "delete"
    /\ store' = RedisDelete(store, format_redis_key(idempotent_id[w]))
    /\ pc' = [pc EXCEPT ![w] = "exec"]
    /\ UNCHANGED <<fixed, idempotent_id, endpoint, value, g_,
                   response, persistent, last, stored, discarded, recorded, seen, promoted>>

\* set_response_cache and `return response`, for the response resp, the
\* committed list of flask.g and the instances pers that are persistent.
PutAndReturn(w, resp, committed, pers) ==
    LET id == idempotent_id[w]
        dumped == dumps_response_and_changed_instances(resp, committed, pers)
    IN IF dumped.raised
       THEN /\ Finish(w, "UnboundLocalError", NoResponse)
            /\ UNCHANGED <<store, stored>>
       ELSE /\ store' = PipelineExecute(store, PutCommands(id, dumped, TimeoutOf(id)))
            /\ stored' = [stored EXCEPT ![id] =
                             [response |-> resp,
                              instances |-> dumped.instances,
                              left |-> TimeoutOf(id)]]
            /\ Finish(w, "fresh", resp)

\* A wrapper that caches in a `finally`: the view function raises and what
\* flask.g holds is cached all the same.
RaiseCaching(w) ==
    /\ pc[w] = "exec"
    /\ PutAndReturn(w, "r1", g_[w].committed, {})
    /\ UNCHANGED fixed

\* The view function raises; the exception leaves wrapped_view_function.
Raise(w) ==
    /\ pc[w] = "exec"
    /\ Finish(w, "ViewError", NoResponse)
    /\ UNCHANGED <<store, fixed, stored>>

\* The view function runs to its return, its hooks leaving the committed
\* list of flask.g as given, and the response is cached.
View(w, resp, committed, pers) ==
    /\ pc[w] = "exec"
    /\ g_[w] = EmptyG
    /\ PutAndReturn(w, resp, committed, pers)
    /\ UNCHANGED fixed

\* ------------------------------------------- the hooks, one step each
\* Code that may use a sqlalchemy session is running in the worker.
Running(w) == pc[w] \in {"exec", "other"}

\* A listener of the session factory is called in worker w: it raises where
\* there is no request, returns at once where the guard says so, and else
\* leaves flask.g as `after`.  For the history: the hook was called with
\* the instances `added`, it dropped `dropped`, the transaction it ends (if
\* `ends`) committed `done`.
Listener(w, after, dropped, added, ends, done) ==
    /\ Running(w)
    /\ IF HookRaises(w)
       THEN /\ last' = Ended("RuntimeError", NoResponse)
            /\ UNCHANGED <<g_, discarded, seen, promoted>>
       ELSE IF ~should_call_sqlalchemy_hook(w)
       THEN UNCHANGED <<g_, discarded, seen, promoted, last>>
       ELSE /\ Len(after.changes) <= MaxChanges
            /\ g_' = [g_ EXCEPT ![w] = after]
            /\ discarded' = [discarded EXCEPT ![w] = (@ \ added) \cup dropped]
            /\ seen' = [seen EXCEPT ![w] = IF ends THEN {} ELSE @ \cup added]
            /\ promoted' = [promoted EXCEPT ![w] = @ \cup done]
            /\ UNCHANGED last
    /\ recorded' = [recorded EXCEPT ![w] = @ \cup added]
    /\ UNCHANGED <<store, fixed, pc, idempotent_id, endpoint, value,
                   response, persistent, stored>>

\* before_flush fires: the session has something to flush.
BeforeFlush(w, session) ==
    /\ SessionSeq(session) # <<>>
    /\ Listener(w, record_changed_instances(g_[w], session),
                {}, StrsOf(SessionSeq(session)), FALSE, {})

\* before_commit fires (the session may be clean).
BeforeCommit(w, session) ==
    Listener(w, record_changed_instances(g_[w], session),
             {}, StrsOf(SessionSeq(session)), FALSE, {})

\* after_commit fires: the transaction is committed.
AfterCommit(w) ==
    Listener(w, record_committed_changes(g_[w]), {}, {},
             TRUE, Range(g_[w].changes))

\* after_rollback fires.
AfterRollback(w) ==
    Listener(w, clear_changed_instances(g_[w]),
             StrsOf(g_[w].changes) \cup StrsOf(g_[w].committed), {}, TRUE, {})

\* Code other than a wrapped view function starts in the worker: a request
\* for a view function that is not wrapped or for no view function at all,
\* or code outside a request.
StartOther(w, ep) ==
    /\ pc[w] = "idle"
    /\ ep \in {NoEndpoint, NoCtx, AppOnly}
          \/ (ep \in DOMAIN view_functions /\ ~view_functions[ep]._idempotent_wrapped)
    /\ pc' = [pc EXCEPT ![w] = "other"]
    /\ endpoint' = [endpoint EXCEPT ![w] = ep]
    /\ UNCHANGED <<store, fixed, idempotent_id, value, g_, response,
                   persistent, last, stored, discarded, recorded, seen, promoted>>

\* That code ends; its contexts, if any, are popped.
EndOther(w) ==
    /\ pc[w] = "other"
    /\ pc' = [pc EXCEPT ![w] = "idle"]
    /\ endpoint' = [endpoint EXCEPT ![w] = NoCtx]
    /\ g_' = [g_ EXCEPT ![w] = FreshG(g_[w])]
    /\ discarded' = [discarded EXCEPT ![w] = {}]
    /\ recorded' = [recorded EXCEPT ![w] = {}]
    /\ seen' = [seen EXCEPT ![w] = {}]
    /\ promoted' = [promoted EXCEPT ![w] = {}]
    /\ UNCHANGED <<store, fixed, idempotent_id, value, response, persistent,
                   last, stored>>

\* The view function returns its response; set_response_cache is entered.
\* Of the instances the request committed, pers are persistent by now.
Return(w, resp, pers) ==
    /\ pc[w] = "exec"
    /\ pers \subseteq promoted[w]
    /\ pc' = [pc EXCEPT ![w] = "put"]
    /\ response' = [response EXCEPT ![w] = resp]
    /\ persistent' = [persistent EXCEPT ![w] = pers]
    /\ UNCHANGED <<store, fixed, idempotent_id, endpoint, value,
                   g_, last, stored, discarded, recorded, seen, promoted>>

\* set_response_cache, then `return response`.
Put(w) ==
    /\ pc[w] = "put"
    /\ PutAndReturn(w, response[w], g_[w].committed, persistent[w])
    /\ UNCHANGED fixed

\* --------------------------------------------------------- registration
\* The applications before any decorator or sweep: plain view functions
\* and a url map of a few rules.
RuleMethods == {{"GET", "OPTIONS"}, {"PUT", "OPTIONS"}, {"POST", "OPTIONS"},
                {"GET", "PUT", "OPTIONS"}}

Rules == {Rule(ep, ms) : ep \in Endpoints, ms \in RuleMethods}

UrlMaps == UNION {[1..n -> Rules] : n \in 0..MaxRules}

InitRegister ==
    /\ InitCommon
    /\ enable_idempotent_lock = TRUE
    /\ kf = Nil
    /\ view_functions = [ep \in Endpoints |-> ViewFunction(0, FALSE, FALSE)]
    /\ url_map \in UrlMaps

requests == <<store, pc, idempotent_id, value, g_, response, persistent,
              last, stored, discarded, recorded, seen, promoted, endpoint>>

\* @idempotent or @idempotent.parametrize(...) on the view function of ep.
Decorate(ep) ==
    /\ view_functions' = [view_functions EXCEPT ![ep] = wrap_view_func(@)]
    /\ UNCHANGED <<requests, enable_idempotent_lock, url_map, kf>>

\* @idempotent.forget on the view function of ep.
Forget(ep) ==
    /\ view_functions' = [view_functions EXCEPT ![ep] = forget(@)]
    /\ UNCHANGED <<requests, enable_idempotent_lock, url_map, kf>>

\* idempotent.auto_register(http_methods, reserved_endpoints)
AutoRegister(http_methods, reserved_endpoints) ==
    /\ view_functions' = auto_register(view_functions, url_map,
                                       http_methods, reserved_endpoints)
    /\ UNCHANGED <<requests, enable_idempotent_lock, url_map, kf>>

MethodArgs == {<<>>} \cup {<<ms>> : ms \in {{"GET"}, {"POST", "OPTIONS"}, {"GET", "PUT"}}}

ReservedArgs == {<<>>} \cup {<<es>> : es \in {{"a"}, {"b", "plain"}}}

NextRegister ==
    \/ \E ep \in Endpoints : Decorate(ep)
    \/ \E ep \in Endpoints : Forget(ep)
    \/ \E hm \in MethodArgs, res \in ReservedArgs : AutoRegister(hm, res)

\* Setting up the application: decorators and sweeps, in any order.
SpecRegister == InitRegister /\ [][NextRegister]_vars

\* ------------------------------------------------------------ fingerprints
\* gen_keyfunc(...): every switch either way, and three choices of headers.
Configs ==
    [path : BOOLEAN, method : BOOLEAN, query_string : BOOLEAN, data : BOOLEAN,
     headers : {<<>>, <<"X-A">>, <<"X-Forwarded-For", "X-A">>},
     session : BOOLEAN, content_type : BOOLEAN, content_length : BOOLEAN,
     remote_addr : BOOLEAN, use_checksum : BOOLEAN]

\* A request, and requests that differ from it in a few places.
BaseRequest ==
    [path |-> "/user/1", method |-> "PUT",
     query_string |-> <<<<"k1", "1">>, <<"k2", "2">>>>,
     data |-> <<<<"k1", "x">>, <<"k2", "y">>>>,
     headers |-> <<<<"X-A", "1">>, <<"X-Forwarded-For", "10.0.0.9">>>>,
     session |-> <<<<"k1", "u">>, <<"k2", "v">>>>,
     content_type |-> <<"application/json">>,
     content_length |-> <<3>>,
     remote_addr |-> "10.0.0.1"]

AllRequests ==
    [path : {"/user/1", "/user/2"}, method : {"PUT", "GET"},
     query_string : {<<<<"k1", "1">>, <<"k2", "2">>>>, <<<<"k2", "2">>, <<"k1", "1">>>>,
                     <<<<"k1", "1">>>>},
     data : {<<<<"k1", "x">>, <<"k2", "y">>>>, <<<<"k2", "y">>, <<"k1", "x">>>>,
             <<<<"k1", "x">>>>},
     headers : {<<<<"X-A", "1">>, <<"X-Forwarded-For", "10.0.0.9">>>>,
                <<<<"X-Forwarded-For", "10.0.0.9">>, <<"X-A", "1">>>>,
                <<<<"X-A", "None">>, <<"X-Forwarded-For", "10.0.0.9">>>>,
                <<<<"X-A", "1">>>>,
                <<<<"X-Forwarded-For", "10.0.0.1">>>>},
     session : {<<<<"k1", "u">>, <<"k2", "v">>>>, <<<<"k2", "v">>, <<"k1", "u">>>>,
                <<<<"k1", "u">>>>},
     content_type : {<<"application/json">>, <<>>},
     content_length : {<<3>>, <<4>>, <<>>},
     remote_addr : {"10.0.0.1", "10.0.0.2"}]

Fields ==
    {"path", "method", "query_string", "data", "headers", "session",
     "content_type", "content_length", "remote_addr"}

Varied(req) == {f \in Fields : req[f] # BaseRequest[f]}

Requests == {req \in AllRequests : Cardinality(Varied(req)) <= MaxVaried}

InitKeyfunc ==
    /\ InitCommon
    /\ enable_idempotent_lock = TRUE
    /\ view_functions = Registered
    /\ url_map = RegisteredRules
    /\ kf \in [cfg : Configs, d1 : {BaseRequest}, d2 : Requests,
                called : {FALSE}, key1 : {<<>>}, key2 : {<<>>}]

\* Two requests reach the keyfunc of a wrapped view function.
CallKeyfunc ==
    /\ ~kf.called
    /\ kf' = [kf EXCEPT !.called = TRUE,
                         !.key1 = keyfunc(kf.cfg, kf.d1),
                         !.key2 = keyfunc(kf.cfg, kf.d2)]
    /\ UNCHANGED <<requests, enable_idempotent_lock, view_functions, url_map>>

\* The keyfunc of every configuration, on pairs of requests.
SpecKeyfunc == InitKeyfunc /\ [][CallKeyfunc]_vars

\* ------------------------------------------------------- specifications
Lookup(w) == Get(w) \/ MGet(w) \/ Delete(w)

Atomic(w) ==
    \/ \E resp \in Responses, committed \in CommittedLists :
         \E pers \in SUBSET Range(committed) : View(w, resp, committed, pers)
    \/ Raise(w)

Hooks(w) ==
    \/ \E session \in Sessions : BeforeFlush(w, session)
    \/ \E session \in Sessions : BeforeCommit(w, session)
    \/ AfterCommit(w)
    \/ AfterRollback(w)
    \/ \E resp \in Responses :
         \E pers \in SUBSET promoted[w] : Return(w, resp, pers)
    \/ Put(w)
    \/ Raise(w)

Next ==
    \/ Tick
    \/ \E w \in Workers, f \in Fingerprints : Start(w, f)
    \/ \E w \in Workers : Lookup(w)
    \/ \E w \in Workers : Atomic(w)

NextSeq ==
    \/ Tick
    \/ \E w \in Workers, f \in Fingerprints : StartSeq(w, f)
    \/ \E w \in Workers : Lookup(w)
    \/ \E w \in Workers : Atomic(w)

NextTracker ==
    \/ \E w \in Workers, f \in Fingerprints : StartSeq(w, f)
    \/ \E w \in Workers : Lookup(w)
    \/ \E w \in Workers : Hooks(w)

Other(w) ==
    \/ \E ep \in Endpoints \cup {NoEndpoint, NoCtx, AppOnly} : StartOther(w, ep)
    \/ EndOther(w)

\* Requests of one endpoint whose view function returns one response; the
\* instances a later commit or a rollback took off the committed list are
\* not persistent.
HooksOne(w) ==
    \/ \E session \in Sessions : BeforeFlush(w, session)
    \/ \E session \in Sessions : BeforeCommit(w, session)
    \/ AfterCommit(w)
    \/ AfterRollback(w)
    \/ \E pers \in SUBSET Range(g_[w].committed) : Return(w, "r1", pers)
    \/ Put(w)
    \/ Raise(w)

\* With one fingerprint no reverse-index entry holds another one, and the
\* lookup never deletes.
LookupOne(w) == Get(w) \/ MGet(w)

NextHooks ==
    \/ \E w \in Workers : Start(w, <<"fpA">>)
    \/ \E w \in Workers : LookupOne(w)
    \/ \E w \in Workers : HooksOne(w)
    \/ \E w \in Workers : Other(w)

\* Concurrent requests, lock requested (the default).
Spec == Init /\ [][Next]_vars

\* Concurrent requests, lock not requested.
SpecNoLock == InitNoLock /\ [][Next]_vars

\* Requests one after the other.
SpecSeq == Init /\ [][NextSeq]_vars

\* Requests one after the other, every hook of the tracker a step.
SpecTracker == Init /\ [][NextTracker]_vars

\* Concurrent requests and other code, every hook of the tracker a step.
SpecHooks == Init /\ [][NextHooks]_vars

\* ----------------------------------------------------------------- faults
\* Redis cannot be reached: redis.get, redis.mget, redis.delete or, after
\* the view function returned, pipeline.execute raises ConnectionError.
\* Nothing in wrapped_view_function catches it.
StoreFails(w) ==
    /\ pc[w] \in {"get", "mget", "delete", "exec"}
    /\ Finish(w, "ConnectionError", NoResponse)
    /\ UNCHANGED <<store, fixed, stored>>

\* The view function returns a response pickle cannot dump: pickle.dumps
\* raises in dumps_response_and_changed_instances, before anything is
\* queued, and nothing in wrapped_view_function catches it.
Unpicklable(w) ==
    /\ pc[w] = "exec"
    /\ Finish(w, "PicklingError", NoResponse)
    /\ UNCHANGED <<store, fixed, stored>>

NextFaulty ==
    \/ NextSeq
    \/ \E w \in Workers : StoreFails(w)
    \/ \E w \in Workers : Unpicklable(w)

\* Requests one after the other, with a store that may fail and responses
\* that may not serialize.
SpecFaulty == Init /\ [][NextFaulty]_vars

\* ----------------------------------------------------------------- claims
CacheEntry(f) == store[format_redis_key(f)]
IndexEntry(e) == store[format_redis_key(e)]
Cached(entry) == loads_cached_value(entry.val)

\* The last put of f is within its timeout.
Live(f) == stored[f] # Nil /\ stored[f].left > 0

\* No reverse-index entry of the last put of f was overwritten or removed.
Intact(f) ==
    \A e \in stored[f].instances :
        IndexEntry(e) = [val |-> f, ttl |-> stored[f].left]

\* The invocation of w ends in this step.
Completes(w) == pc[w] # "idle" /\ pc'[w] = "idle"

\* C1 (sequential idempotence): with requests served one after the other,
\* an invocation that ends while the last put of its fingerprint is within
\* its timeout and has all its reverse-index entries as written returns the
\* response of that put, without running the view function and without
\* writing to the store.
C1_SequentialIdempotence ==
    [][\A w \in Workers :
        (Completes(w) /\ Live(idempotent_id[w]) /\ Intact(idempotent_id[w]))
        => /\ pc[w] \in {"get", "mget"}
           /\ last' = Ended("hit", stored[idempotent_id[w]].response)
           /\ store' = store]_vars

\* C1 witness: a repeat request was answered from a live cache entry that
\* lists affected instances.
C1_Witness ==
    /\ \A w \in Workers : pc[w] = "idle"
    /\ last # Nil
    /\ last.outcome = "hit"
    /\ \E f \in Fingerprints :
          /\ Live(f) /\ Intact(f)
          /\ stored[f].instances # {}
          /\ stored[f].response = last.response
          /\ \A h \in Fingerprints \ {f} : stored[h] = Nil

\* C2 (lock): when the idempotent lock is requested, no two workers run the
\* view function for the same fingerprint at the same time.
C2_LockSerializes ==
    enable_idempotent_lock =>
        \A w1, w2 \in Workers :
            (w1 # w2 /\ pc[w1] = "exec" /\ pc[w2] = "exec")
            => idempotent_id[w1] # idempotent_id[w2]

\* The cache entry w loaded is still the one stored under its fingerprint.
StillCached(w) ==
    /\ CacheEntry(idempotent_id[w]) # Nil
    /\ Cached(CacheEntry(idempotent_id[w])) = value[w]

\* C3 (invalidation by mismatch): a lookup whose multi-get finds the
\* reverse-index entry of an affected instance of the stored cache entry
\* holding another fingerprint goes on to delete the cache entry, and the
\* delete is followed by the view function.
C3_MismatchIsMiss ==
    [][\A w \in Workers :
        /\ (/\ pc[w] = "mget" /\ pc'[w] # "mget"
            /\ StillCached(w)
            /\ \E e \in value[w].instances :
                  IndexEntry(e) # Nil /\ IndexEntry(e).val # idempotent_id[w])
           => pc'[w] = "delete"
        /\ (pc[w] = "delete" /\ pc'[w] # "delete")
           => pc'[w] = "exec" /\ store'[format_redis_key(idempotent_id[w])] = Nil]_vars

\* C4 (invalidation by absence): a lookup whose multi-get finds the
\* reverse-index entry of an affected instance of the stored cache entry
\* absent goes on to delete the cache entry; no error ends the invocation.
C4_AbsenceIsMiss ==
    [][\A w \in Workers :
        (/\ pc[w] = "mget" /\ pc'[w] # "mget"
         /\ StillCached(w)
         /\ \E e \in value[w].instances : IndexEntry(e) = Nil)
        => pc'[w] = "delete" /\ last' = last]_vars

\* C5 (expiry): a lookup that starts once the timeout of the last put of
\* its fingerprint has elapsed is a miss and calls the view function, and an
\* invocation that returns a fresh response leaves it cached under its
\* fingerprint with the full timeout.
C5_TtlExpiry ==
    [][\A w \in Workers :
        /\ (/\ pc[w] = "get" /\ pc'[w] # "get"
            /\ stored[idempotent_id[w]] # Nil
            /\ stored[idempotent_id[w]].left = 0)
           => pc'[w] = "exec"
        /\ (pc[w] = "exec" /\ Completes(w) /\ last'.outcome = "fresh")
           => /\ store'[format_redis_key(idempotent_id[w])] # Nil
              /\ Cached(store'[format_redis_key(idempotent_id[w])]).response
                    = last'.response
              /\ store'[format_redis_key(idempotent_id[w])].ttl
                    = TimeoutOf(idempotent_id[w])]_vars

\* C5 witness: a request looks up a fingerprint whose last put has timed
\* out.
C5_Witness ==
    \E w \in Workers :
        /\ pc[w] = "get"
        /\ stored[idempotent_id[w]] # Nil
        /\ stored[idempotent_id[w]].left = 0
        /\ \A v \in Workers \ {w} : pc[v] = "idle"

\* C6 (unconditional hit): a lookup that finds a cache entry with no
\* affected instances ends at once with the cached response, whatever the
\* reverse index holds, and leaves the store as it is.
C6_UnconditionalHit ==
    [][\A w \in Workers :
        (/\ pc[w] = "get" /\ pc'[w] # "get"
         /\ CacheEntry(idempotent_id[w]) # Nil
         /\ Cached(CacheEntry(idempotent_id[w])).instances = {})
        => /\ pc'[w] = "idle"
           /\ last' = Ended("hit", Cached(CacheEntry(idempotent_id[w])).response)
           /\ store' = store]_vars

\* C6 witness: a hit on an entry without affected instances while the
\* reverse index is not empty.
C6_Witness ==
    /\ last # Nil
    /\ last.outcome = "hit"
    /\ \E f \in Fingerprints :
          /\ CacheEntry(f) # Nil
          /\ Cached(CacheEntry(f)).instances = {}
          /\ Cached(CacheEntry(f)).response = last.response
          /\ \A h \in Fingerprints \ {f} : stored[h] = Nil
    /\ \E e \in InstanceStrs : IndexEntry(e) # Nil

\* C7 (rollback): after_rollback leaves both lists of flask.g empty, and
\* the put of the invocation writes no reverse-index entry for, and lists in
\* its cache entry none of, the instances a rollback dropped that were not
\* recorded again.
C7_RollbackDiscards ==
    [][\A w \in Workers :
        /\ AfterRollback(w) => g_'[w] = EmptyG
        /\ (pc[w] = "put" /\ Completes(w))
           => /\ \A e \in discarded[w] : store'[format_redis_key(e)] = IndexEntry(e)
              /\ last'.outcome = "fresh"
                 => Cached(store'[format_redis_key(idempotent_id[w])]).instances
                      \cap discarded[w] = {}]_vars

\* C7 witness: a rollback dropped an instance, a later commit recorded
\* another, and the response is about to be cached.
C7_Witness ==
    \E w \in Workers :
        /\ pc[w] = "put"
        /\ discarded[w] # {}
        /\ persistent[w] \cap Range(g_[w].committed) # {}

\* C8 (stable value): while a cache entry exists under a fingerprint, no
\* step replaces its response by another one.
C8_StableCachedValue ==
    [][\A f \in Fingerprints :
        (CacheEntry(f) # Nil /\ store'[format_redis_key(f)] # Nil)
        => Cached(store'[format_redis_key(f)]).response = Cached(CacheEntry(f)).response]_vars

\* C9 (atomic put): a step that writes a cache entry writes with it, with
\* the same time to live, the reverse-index entry of every instance it
\* lists, and a step that writes a reverse-index entry leaves it beside a
\* cache entry of its fingerprint that lists it and has the same time to
\* live.
C9_AtomicPut ==
    [][pc' # pc =>
        /\ \A f \in Fingerprints :
              (store'[format_redis_key(f)] # Nil
               /\ store'[format_redis_key(f)] # CacheEntry(f))
              => \A e \in Cached(store'[format_redis_key(f)]).instances :
                    store'[format_redis_key(e)]
                      = [val |-> f, ttl |-> store'[format_redis_key(f)].ttl]
        /\ \A e \in InstanceStrs :
              (store'[format_redis_key(e)] # Nil
               /\ store'[format_redis_key(e)] # IndexEntry(e))
              => LET f == store'[format_redis_key(e)].val
                 IN /\ store'[format_redis_key(f)] # Nil
                    /\ store'[format_redis_key(f)].ttl = store'[format_redis_key(e)].ttl
                    /\ e \in Cached(store'[format_redis_key(f)]).instances]_vars

\* C9 witness: a cache entry that lists two instances, next to their
\* reverse-index entries.
C9_Witness ==
    \E f \in Fingerprints :
        /\ CacheEntry(f) # Nil
        /\ Cardinality(Cached(CacheEntry(f)).instances) = 2
        /\ \A e \in Cached(CacheEntry(f)).instances :
              IndexEntry(e) = [val |-> f, ttl |-> CacheEntry(f).ttl]

\* C10 (reverse index without the lock): once every invocation has ended,
\* each reverse-index entry names an instance listed by the cache entry
\* stored under the fingerprint it holds.
C10_ReverseIndexConsistent ==
    (\A w \in Workers : pc[w] = "idle")
    => \A e \in InstanceStrs :
          IndexEntry(e) # Nil
          => /\ CacheEntry(IndexEntry(e).val) # Nil
             /\ e \in Cached(CacheEntry(IndexEntry(e).val)).instances

\* C11 (per-invocation tracking): an invocation starts with both lists of
\* its flask.g empty, and its put lists in the cache entry, and writes
\* reverse-index entries for, only instances its own hooks were called
\* with, whatever other workers do meanwhile.
C11_PerInvocationTracking ==
    [][\A w \in Workers :
        /\ (pc[w] = "idle" /\ pc'[w] # "idle") => g_'[w] = EmptyG
        /\ (pc[w] = "put" /\ Completes(w))
           => /\ \A e \in InstanceStrs \ recorded[w] :
                    store'[format_redis_key(e)] = IndexEntry(e)
              /\ last'.outcome = "fresh"
                 => Cached(store'[format_redis_key(idempotent_id[w])]).instances
                      \subseteq recorded[w]]_vars

\* C11 witness: two workers run the view function at once, their hooks
\* were called with different instances, and one is about to cache.
C11_Witness ==
    \E w, v \in Workers :
        /\ pc[w] = "put" /\ persistent[w] \cap Range(g_[w].committed) # {}
        /\ pc[v] = "exec" /\ g_[v].committed # <<>>
        /\ recorded[w] \cap recorded[v] = {}

\* The code running in w is not a wrapped view function of a request.
NotApplicable(w) ==
    \/ endpoint[w] \in {NoCtx, AppOnly, NoEndpoint}
    \/ ~view_functions[endpoint[w]]._idempotent_wrapped

\* C12 (applicability guard): a hook called outside a request, or in a
\* request whose view function is not wrapped, leaves both lists of flask.g
\* as they are.
C12_GuardedHooks ==
    [][\A w \in Workers :
        (pc[w] = "other" /\ pc'[w] = "other" /\ NotApplicable(w))
        => g_'[w] = g_[w]]_vars

\* C12 witness: a hook was called with an instance in a request whose view
\* function is not wrapped, while a wrapped one has committed changes.
C12_Witness ==
    \E w, v \in Workers :
        /\ pc[w] = "other" /\ endpoint[w] = "plain"
        /\ recorded[w] # {} /\ g_[w] = EmptyG
        /\ pc[v] = "exec" /\ g_[v].committed # <<>>

\* C13 (wrap once): no step of the registration (decorator, parametrize or
\* sweep) puts a second wrapper around a wrapped view function or any
\* wrapper around one marked to forget; wrapping a view function twice
\* gives what wrapping it once gives, and wrapping a forgotten one gives
\* the function itself.
C13_WrapOnce ==
    [][\A ep \in Endpoints :
        LET old == view_functions[ep]
            new == view_functions'[ep]
        IN /\ (old._idempotent_wrapped \/ old._idempotent_forget)
              => (new.layers = old.layers
                  /\ new._idempotent_wrapped = old._idempotent_wrapped)
           /\ new.layers \in {old.layers, old.layers + 1}
           /\ wrap_view_func(wrap_view_func(old)) = wrap_view_func(old)
           /\ old._idempotent_forget => wrap_view_func(old) = old
           /\ Decorate(ep) => wrap_view_func(new) = new]_vars

\* C13 witness: a wrapped view function next to a forgotten one that no
\* wrapper surrounds.
C13_Witness ==
    \E ep, fp \in Endpoints :
        /\ view_functions[ep] = ViewFunction(1, TRUE, FALSE)
        /\ view_functions[fp] = ViewFunction(0, FALSE, TRUE)
        /\ \E i \in 1..Len(url_map) :
              url_map[i].endpoint = fp /\ "PUT" \in url_map[i].methods
        /\ \E i \in 1..Len(url_map) :
              url_map[i].endpoint = ep /\ "PUT" \in url_map[i].methods

\* The endpoints a sweep has to wrap.
Eligible(ep, http_methods, reserved_endpoints) ==
    /\ ep \notin reserved_endpoints
    /\ ~view_functions[ep]._idempotent_forget
    /\ \E i \in 1..Len(url_map) :
          url_map[i].endpoint = ep /\ url_map[i].methods \cap http_methods # {}

\* C14 (sweep): auto_register leaves every eligible endpoint with exactly
\* one wrapper (one more than before if it had none), every other endpoint
\* as it was, and a second sweep with the same arguments changes nothing.
C14_AutoRegisterSweep ==
    [][\A hm \in MethodArgs, res \in ReservedArgs :
        AutoRegister(hm, res) =>
          LET http_methods == IF hm = <<>> THEN DefaultMethods ELSE hm[1]
              reserved == IF res = <<>> THEN DefaultReserved ELSE res[1]
          IN /\ \A ep \in Endpoints :
                   view_functions'[ep] =
                     IF Eligible(ep, http_methods, reserved)
                        /\ ~view_functions[ep]._idempotent_wrapped
                     THEN ViewFunction(view_functions[ep].layers + 1, TRUE, FALSE)
                     ELSE view_functions[ep]
             /\ auto_register(view_functions', url_map, hm, res) = view_functions']_vars

\* C14 witness: an endpoint with two rules that both match the default
\* methods carries one wrapper, and a forgotten endpoint with a matching
\* rule carries none.
C14_Witness ==
    /\ Len(url_map) = 2
    /\ url_map[1].endpoint = url_map[2].endpoint
    /\ url_map[1].methods = {"GET", "PUT", "OPTIONS"}
    /\ url_map[2].methods = {"PUT", "OPTIONS"}
    /\ \A ep \in Endpoints :
          view_functions[ep] =
            IF ep = url_map[1].endpoint THEN ViewFunction(1, TRUE, FALSE)
            ELSE IF ep = "plain" THEN ViewFunction(0, FALSE, TRUE)
            ELSE ViewFunction(0, FALSE, FALSE)

\* The dimensions a configuration enables.
EnabledDims(cfg) ==
    {d \in Fields : IF d = "headers" THEN cfg.headers # <<>> ELSE cfg[d]}

\* The value of a dimension of a request: the named headers, the entries of
\* the session, the client address (X-Forwarded-For, else the remote
\* address), and else the attribute of the request.
DimValue(cfg, req, d) ==
    CASE d = "headers" ->
            [i \in 1..Len(cfg.headers) |-> HeadersGet(req.headers, cfg.headers[i], <<>>)]
      [] d = "session" -> Range(req.session)
      [] d = "remote_addr" ->
            HeadersGet(req.headers, "X-Forwarded-For", <<req.remote_addr>>)
      [] OTHER -> req[d]

AgreeOn(d) == DimValue(kf.cfg, kf.d1, d) = DimValue(kf.cfg, kf.d2, d)

\* C15 (disabled dimensions, determinism): two requests that agree on every
\* enabled dimension get the same fingerprint, hashed or not.
C15_IgnoresDisabled ==
    (kf # Nil /\ kf.called /\ \A d \in EnabledDims(kf.cfg) : AgreeOn(d))
    => kf.key1 = kf.key2

\* C15 witness: hashed fingerprints of two requests that differ in the
\* method and the content length, both disabled, while the path and the
\* body are enabled.
C15_Witness ==
    /\ kf # Nil /\ kf.called /\ kf.cfg.use_checksum
    /\ ~kf.cfg.method /\ ~kf.cfg.content_length
    /\ kf.cfg.path /\ kf.cfg.data
    /\ Varied(kf.d2) = {"method", "content_length"}
    /\ kf.key1 = kf.key2

\* C16 (enabled dimensions): two requests that differ in an enabled
\* dimension get different fingerprints when the key is not hashed.
C16_SeparatesEnabled ==
    (kf # Nil /\ kf.called /\ ~kf.cfg.use_checksum
     /\ \E d \in EnabledDims(kf.cfg) : ~AgreeOn(d))
    => kf.key1 # kf.key2

\* C16 witness: with only the client address enabled, two requests whose
\* X-Forwarded-For differs get different keys.
C16_Witness ==
    /\ kf # Nil /\ kf.called /\ ~kf.cfg.use_checksum
    /\ EnabledDims(kf.cfg) = {"remote_addr"}
    /\ Varied(kf.d2) = {"headers"}
    /\ kf.key1 # kf.key2

\* The two requests hold the same entries in each key/value dimension and
\* are equal elsewhere.
SameEntries ==
    /\ \A d \in {"query_string", "data", "headers", "session"} :
          Range(kf.d1[d]) = Range(kf.d2[d])
    /\ \A d \in Fields \ {"query_string", "data", "headers", "session"} :
          kf.d1[d] = kf.d2[d]

\* C17 (order): two requests that hold the same entries in the body, the
\* query, the headers and the session, in whatever order, get the same
\* fingerprint.
C17_OrderInsensitive ==
    (kf # Nil /\ kf.called /\ SameEntries) => kf.key1 = kf.key2

\* C18 (store failure): no invocation ends with the failure of the store;
\* one that met it has run the view function and returns its response.
C18_StoreFailureDegrades ==
    [][\A w \in Workers :
        Completes(w) => last'.outcome # "ConnectionError"]_vars

\* C19 (serialization failure): an invocation whose response cannot be
\* serialized still returns the response, and writes nothing to the store.
C19_SerializationFailureSkipsWrite ==
    [][\A w \in Workers :
        (Completes(w) /\ last'.outcome = "PicklingError")
        => (last'.response \in Responses /\ store' = store)]_vars

\* C20 (abort after commit): an invocation that ends in the view function
\* after a commit recorded changes leaves a cache entry under its
\* fingerprint.
C20_AbortAfterCommitCaches ==
    [][\A w \in Workers :
        (pc[w] = "exec" /\ Completes(w) /\ g_[w].committed # <<>>)
        => store'[format_redis_key(idempotent_id[w])] # Nil]_vars

\* Another worker is inside the protected operation of the fingerprint of w.
HeldByOther(w) ==
    \E v \in Workers \ {w} :
        pc[v] = "exec" /\ idempotent_id[v] = idempotent_id[w]

C22_AbortBeforeCommit ==
    [][\A w \in Workers :
        /\ (pc[w] = "exec" /\ Completes(w) /\ g_[w].committed = <<>>)
           => /\ last' = Ended("ViewError", NoResponse)
              /\ store' = store
              /\ store'[format_redis_key(idempotent_id[w])] = Nil
        /\ (pc[w] = "get" /\ pc'[w] # "get" /\ CacheEntry(idempotent_id[w]) = Nil)
           => pc'[w] = "exec"]_vars

\* C22 witness: the latest invocation ended with the error of its view
\* function; its fingerprint has no cache entry while the other one has a
\* cache entry and a reverse-index entry.
C22_Witness ==
    /\ \A w \in Workers : pc[w] = "idle"
    /\ last = Ended("ViewError", NoResponse)
    /\ \E f, h \in Fingerprints :
          /\ CacheEntry(f) = Nil /\ stored[f] = Nil
          /\ CacheEntry(h) # Nil /\ Cached(CacheEntry(h)).instances # {}

\* C23 (only persistent instances): the put of an invocation succeeds
\* whatever the committed list holds, and lists in the cache entry, and
\* writes reverse-index entries for, exactly the committed instances that
\* are persistent.
C23_OnlyPersistentRecorded ==
    [][\A w \in Workers :
        (pc[w] = "put" /\ Completes(w))
        => LET kept == {InstanceStr(i) : i \in Range(g_[w].committed) \cap persistent[w]}
               id == idempotent_id[w]
           IN /\ last' = Ended("fresh", response[w])
              /\ store'[format_redis_key(id)] # Nil
              /\ Cached(store'[format_redis_key(id)]).instances = kept
              /\ \A e \in kept :
                    store'[format_redis_key(e)] = [val |-> id, ttl |-> TimeoutOf(id)]
              /\ \A e \in InstanceStrs \ kept :
                    store'[format_redis_key(e)] = IndexEntry(e)]_vars

\* s is an initial part of t.
IsPrefix(s, t) == Len(s) <= Len(t) /\ \A i \in 1..Len(s) : s[i] = t[i]

\* C24 (pending changes accumulate): while a wrapped view function runs,
\* a step takes an instance off the pending list only by emptying the list
\* (commit or rollback); a hook that recorded instances leaves the committed
\* list as it was; and the pending list holds exactly the instances the
\* before_flush and before_commit hooks were called with since the latest
\* commit or rollback.
C24_PendingAccumulates ==
    [][\A w \in Workers :
        (pc[w] = "exec" /\ pc'[w] = "exec")
        => /\ IsPrefix(g_[w].changes, g_'[w].changes) \/ g_'[w].changes = <<>>
           /\ g_'[w].changes # <<>> => g_'[w].committed = g_[w].committed
           /\ seen'[w] = StrsOf(g_'[w].changes)]_vars

\* C24 witness: after a commit, the pending list has grown again to two
\* different instances and the view function is still running.
C24_Witness ==
    \E w \in Workers :
        /\ pc[w] = "exec"
        /\ Len(g_[w].changes) = 2
        /\ g_[w].changes[1] # g_[w].changes[2]
        /\ g_[w].committed # <<>>
        /\ seen[w] = StrsOf(g_[w].changes)

\* C25 (commit promotes and clears): after_commit inside a wrapped view
\* function with a pending list that is not empty makes it the committed
\* list and leaves the pending list empty; with an empty pending list it
\* leaves both lists as they are.
C25_CommitPromotes ==
    [][\A w \in Workers :
        (pc[w] = "exec" /\ AfterCommit(w))
        => IF g_[w].changes # <<>>
           THEN /\ g_'[w].committed = g_[w].changes
                /\ g_'[w].changes = <<>>
           ELSE g_'[w] = g_[w]]_vars

\* C25 witness: a commit promoted two instances; the pending list is empty
\* and the view function is still running.
C25_Witness ==
    \E w \in Workers :
        /\ pc[w] = "exec"
        /\ g_[w].changes = <<>>
        /\ Len(g_[w].committed) = 2
        /\ promoted[w] = Range(g_[w].committed)
        /\ discarded[w] = {}

\* C26 (affected set is complete): the cache entry an invocation writes
\* lists, and the put writes a reverse-index entry holding its fingerprint
\* for, every persistent instance a commit of the invocation promoted.
C26_AffectedSetComplete ==
    [][\A w \in Workers :
        (pc[w] = "put" /\ Completes(w) /\ last'.outcome = "fresh")
        => \A i \in promoted[w] \cap persistent[w] :
              /\ InstanceStr(i)
                   \in Cached(store'[format_redis_key(idempotent_id[w])]).instances
              /\ store'[format_redis_key(InstanceStr(i))] # Nil
              /\ store'[format_redis_key(InstanceStr(i))].val = idempotent_id[w]]_vars

\* C27 (a hit changes nothing): an invocation that ends with a hit ends in
\* the lookup, without the view function, and leaves every key of the store
\* and its time to live as they are; hence a cache entry always has left
\* what remains of its timeout since the put that wrote it.
C27_HitChangesNothing ==
    [][/\ \A w \in Workers :
            (Completes(w) /\ last'.outcome = "hit")
            => /\ pc[w] \in {"get", "mget"}
               /\ store' = store
               /\ stored' = stored
       /\ \A f \in Fingerprints :
            store'[format_redis_key(f)] # Nil
            => /\ stored'[f] # Nil
               /\ store'[format_redis_key(f)].ttl = stored'[f].left]_vars

\* C27 witness: a request was answered from a cache entry that has lived
\* part of its timeout; the entry and its reverse-index entry have the time
\* to live the put and the clock left them.
C27_Witness ==
    /\ \A w \in Workers : pc[w] = "idle"
    /\ last # Nil
    /\ last.outcome = "hit"
    /\ \E f \in Fingerprints :
          /\ CacheEntry(f) # Nil
          /\ CacheEntry(f).ttl < TimeoutOf(f)
          /\ Cached(CacheEntry(f)).response = last.response
          /\ Cached(CacheEntry(f)).instances # {}
          /\ Intact(f)
          /\ \A h \in Fingerprints \ {f} : stored[h] = Nil

\* C28 (expiry alignment): whenever a cache entry and the reverse-index
\* entry of an instance it lists, holding its fingerprint, are both in the
\* store, they have the same time to live, and it is what remains of the
\* timeout of the last put of that fingerprint, which listed the instance.
C28_ExpiryAligned ==
    \A f \in Fingerprints :
        CacheEntry(f) # Nil
        => \A e \in Cached(CacheEntry(f)).instances :
              (IndexEntry(e) # Nil /\ IndexEntry(e).val = f)
              => /\ IndexEntry(e).ttl = CacheEntry(f).ttl
                 /\ stored[f] # Nil
                 /\ e \in stored[f].instances
                 /\ IndexEntry(e).ttl = stored[f].left

\* C28 witness: two cache entries written at different times, each with
\* the reverse-index entry of its instance, one of them part of its timeout
\* old.
C28_Witness ==
    \E f, h \in Fingerprints, e, d \in InstanceStrs :
        /\ f # h /\ e # d
        /\ CacheEntry(f) # Nil /\ CacheEntry(h) # Nil
        /\ Cached(CacheEntry(f)).instances = {e}
        /\ Cached(CacheEntry(h)).instances = {d}
        /\ CacheEntry(f).ttl < TimeoutOf(f)
        /\ IndexEntry(e) = [val |-> f, ttl |-> CacheEntry(f).ttl]
        /\ IndexEntry(d) = [val |-> h, ttl |-> CacheEntry(h).ttl]

\* C29 (the purge is local): the lookup of an invocation changes the store
\* only by its delete, which removes the cache entry of the invocation's
\* fingerprint and leaves every reverse-index entry and every other cache
\* entry as it is; the reads before it change nothing.
C29_PurgeIsLocal ==
    [][\A w \in Workers :
        /\ (pc[w] = "delete" /\ pc'[w] # "delete")
           => /\ pc'[w] = "exec"
              /\ store'[format_redis_key(idempotent_id[w])] = Nil
              /\ \A k \in Keys \ {format_redis_key(idempotent_id[w])} :
                    store'[k] = store[k]
        /\ (pc[w] \in {"get", "mget"} /\ pc'[w] # pc[w])
           => store' = store]_vars

\* C29 witness: the cache entry of a fingerprint was removed within its
\* timeout and its view function is about to run again, while the
\* fingerprint that owns the instance keeps its cache entry and its
\* reverse-index entry.
C29_Witness ==
    \E w \in Workers, f, h \in Fingerprints, e \in InstanceStrs :
        /\ f # h
        /\ pc[w] = "exec" /\ idempotent_id[w] = f
        /\ \A v \in Workers \ {w} : pc[v] = "idle"
        /\ CacheEntry(f) = Nil
        /\ Live(f) /\ e \in stored[f].instances
        /\ CacheEntry(h) # Nil
        /\ e \in Cached(CacheEntry(h)).instances
        /\ Live(h) /\ Intact(h)

====
